---- MODULE Spec2Model ----
(***************************************************************************)
(* Offline-first task manager: the local task store and sync queue         *)
(* (TaskService), the reconciler (SyncService.sync) and the remote         *)
(* authority's batch resolution (SyncService.processBatch).                *)
(*                                                                         *)
(* Timestamps are ISO strings of one fixed format in the code, compared    *)
(* as strings; they are modelled as the integers 1..MaxTime, NullTime      *)
(* being SQL NULL / a missing JSON field.  uuid values are fresh integers. *)
(***************************************************************************)
EXTENDS Integers, Sequences, FiniteSets, TLC

\* ------------------------------------------------------------------ bounds
\* local mutations (createTask, updateTask, deleteTask calls that write)
MaxOps == 2
\* transport failures an entry goes through beyond maxRetries
MaxExtraRetries == 1
\* timestamps of the items posted to the authority on its own
MaxStamp == 2
\* server ids the processBatch of services/syncService.ts makes up before the
\* model stops sending it requests
MaxIssued == 2

\* The clock values.  Timestamps are only ever compared with each other, and
\* only mutations make new ones, so MaxOps values give every order of them.
MaxTime == MaxOps

\* ------------------------------------------------- configuration constants
\* SYNC_RETRY_ATTEMPTS
maxRetries == 3
\* SYNC_BATCH_SIZE: the values the model is run with
BatchSizes == {1, 2}

\* ------------------------------------------------------------ null values
NullTime == 0
NullId == 0
EmptyId == -1
NullStr == "<null>"

Min(a, b) == IF a <= b THEN a ELSE b

\* toInt of processBatch, completed ? 1 : 0 of TaskService
toInt(b) == IF b THEN 1 ELSE 0
\* Boolean(Number(x)) / !!Number(x)
toBool(n) == n # 0

\* variant: the title is taken as it comes
trimMutKeeps(s) == s

\* String.prototype.trim on the titles the model feeds in
trim(s) ==
  CASE s = " b " -> "b"
    [] s = "  " -> ""
    [] OTHER -> s

\* d.f ?? dflt on a parsed JSON object d: a missing field and a null one (NullStr
\* for text, NullTime for a timestamp) both give dflt
Coalesce(d, f, null, dflt) ==
  IF f \in DOMAIN d /\ d[f] # null THEN d[f] ELSE dflt

\* d.f ?? dflt for a field the model never sets to null
OrElse(d, f, dflt) == IF f \in DOMAIN d THEN d[f] ELSE dflt

VARIABLES
  batchSize,  \* this.batchSize, set by the constructor
  tasks,      \* table tasks: task id -> row
  queue,      \* table sync_queue: set of rows
  server,     \* table server_tasks: set of rows
  now,        \* the clock nowISO() reads
  nOps,       \* number of queue rows ever inserted (uuid of the next one)
  pc,         \* position of sync(): "idle" | "sent" | "applying" | "returned"
  items,      \* sync(): the batch read from the queue
  processed,  \* sync(): processed_items of the response
  vi,         \* sync(): number of verdicts of the response applied so far
  result,     \* sync(): its result object, handed to the caller at "returned"
  streak,     \* history: transport-failed sync() calls since the last mutation
  missed,     \* history: one of them did not have the newest entry in its batch
  req,        \* the authority: the batch in a /batch request being handled
  plog,       \* the authority: per item of the batch just processed, what
              \* processBatch saw and did (its verdict included)
  issued,     \* the processBatch of services/syncService.ts: number of server
              \* ids it has made up so far (each uuidv4() is a new one)
  thrown,     \* the authority: processBatch rejected on the request being
              \* handled, the router answers 500
  during,     \* history: the queue entries (id and task id) inserted while the
              \* sync() in progress was between its batch call and its return
  ret         \* the last TaskService call whose outcome is watched: its name
              \* and arguments, and what it gave its caller (the value
              \* returned or the error thrown)

vars == <<batchSize, tasks, queue, server, now, nOps, pc, items, processed, vi, result,
          streak, missed, req, plog, issued, thrown, during, ret>>

\* ============================================================ the authority

\* it.task_id ?? it.client_id ?? it.data?.id ?? null
ClientIdOf(it) ==
  IF "task_id" \in DOMAIN it THEN it.task_id
  ELSE IF "client_id" \in DOMAIN it THEN it.client_id
  ELSE IF "data" \in DOMAIN it /\ "id" \in DOMAIN it.data THEN it.data.id
  ELSE NullId

DataOf(it) == IF "data" \in DOMAIN it THEN it.data ELSE <<>>

\* the normalised incoming payload
Incoming(it, clk) ==
  LET d == DataOf(it) IN
  [ title       |-> Coalesce(d, "title", NullStr,
                             Coalesce(it, "title", NullStr, "untitled")),
    description |-> Coalesce(d, "description", NullStr, NullStr),
    completed   |-> OrElse(d, "completed", FALSE),
    created_at  |-> Coalesce(d, "created_at", NullTime, clk),
    updated_at  |-> Coalesce(d, "updated_at", NullTime, clk) ]

\* SELECT * FROM server_tasks WHERE client_id = ?
ServerRows(srv, clientId) == {r \in srv : r.client_id = clientId}

\* srv_<uuid>: an id no row has
FreshServerId(srv) ==
  IF srv = {} THEN 1
  ELSE 1 + (CHOOSE m \in {r.id : r \in srv} : \A r \in srv : r.id <= m)

\* variant: every incoming write is applied
IsNewerMutAlways(existing, incomingUpdatedAt) == TRUE

\* variant: a record, once there, is never written again
IsNewerMutNever(existing, incomingUpdatedAt) == FALSE

\* variant: a tie keeps the record
IsNewerMutStrict(existing, incomingUpdatedAt) ==
  existing.updated_at = NullTime \/ incomingUpdatedAt > existing.updated_at

\* isNewer of the last-write-wins branch
IsNewer(existing, incomingUpdatedAt) ==
  existing.updated_at = NullTime \/ incomingUpdatedAt >= existing.updated_at

\* variant: a tie is flagged as well
ConflictMutExisting(hasExisting, hasRow, incomingUpdatedAt, rowUpdatedAt) ==
  hasExisting /\ hasRow /\ incomingUpdatedAt <= rowUpdatedAt

\* variant: every item that found a record is flagged
ConflictMutAnyExisting(hasExisting, hasRow, incomingUpdatedAt, rowUpdatedAt) ==
  hasExisting /\ hasRow

\* conflict of the verdict
Conflict(hasExisting, hasRow, incomingUpdatedAt, rowUpdatedAt) ==
  hasExisting /\ hasRow /\ incomingUpdatedAt < rowUpdatedAt

\* The steps of one iteration of processBatch's loop, each handing what it has
\* computed to the next.

\* variant: the INSERT of the delete branch stores a live record
NewRowMutLive(srv, clientId, incoming, deleted) ==
  [ id |-> FreshServerId(srv), client_id |-> clientId,
    title |-> incoming.title, description |-> incoming.description,
    completed |-> toInt(incoming.completed), is_deleted |-> 0,
    created_at |-> incoming.created_at, updated_at |-> incoming.updated_at ]

\* the row of the INSERT statements
NewRow(srv, clientId, incoming, deleted) ==
  [ id |-> FreshServerId(srv), client_id |-> clientId,
    title |-> incoming.title, description |-> incoming.description,
    completed |-> toInt(incoming.completed), is_deleted |-> deleted,
    created_at |-> incoming.created_at, updated_at |-> incoming.updated_at ]

\* the iteration runs an INSERT or UPDATE statement
Writes(op, incoming, found) ==
  \/ op = "delete"
  \/ found = {}
  \/ IsNewer(CHOOSE r \in found : TRUE, incoming.updated_at)

\* the table after the statement of the branch taken
Written(srv, op, clientId, incoming, found) ==
  LET existing == CHOOSE r \in found : TRUE IN
  IF op = "delete" THEN
    IF found # {}
    THEN (srv \ found) \cup
         {[existing EXCEPT !.is_deleted = 1, !.updated_at = incoming.updated_at]}
    ELSE srv \cup {NewRow(srv, clientId, incoming, 1)}
  ELSE IF found = {} THEN srv \cup {NewRow(srv, clientId, incoming, 0)}
  ELSE IF IsNewer(existing, incoming.updated_at)
    THEN (srv \ found) \cup
         {[existing EXCEPT !.title = incoming.title,
                           !.description = incoming.description,
                           !.completed = toInt(incoming.completed),
                           !.is_deleted = 0,
                           !.updated_at = incoming.updated_at]}
    ELSE srv

\* serverId: existing.id, or the id made for the INSERT
ServerIdOf(srv, found) ==
  IF found # {} THEN (CHOOSE r \in found : TRUE).id ELSE FreshServerId(srv)

\* resolved: the row read back, or the incoming payload when there is none
Resolved(rows, serverId, incoming) ==
  LET serverRow == CHOOSE r \in rows : TRUE IN
  IF rows # {}
  THEN [ id |-> serverRow.id, title |-> serverRow.title,
         description |-> serverRow.description,
         completed |-> toBool(serverRow.completed),
         created_at |-> serverRow.created_at,
         updated_at |-> serverRow.updated_at ]
  ELSE [ id |-> serverId, title |-> incoming.title,
         description |-> incoming.description,
         completed |-> incoming.completed,
         created_at |-> incoming.created_at,
         updated_at |-> incoming.updated_at ]

\* the verdict pushed at the end of the try block
SuccessVerdict(clientId, op, incoming, found, rows, serverId) ==
  [ client_id |-> clientId,
    server_id |-> IF rows # {} THEN (CHOOSE r \in rows : TRUE).id ELSE serverId,
    status |-> "success",
    resolved_data |-> Resolved(rows, serverId, incoming),
    operation |-> op,
    conflict |-> Conflict(found # {}, rows # {}, incoming.updated_at,
                          IF rows # {} THEN (CHOOSE r \in rows : TRUE).updated_at
                          ELSE NullTime) ]

\* the verdict pushed by the catch block
ErrorVerdict(clientId, op) ==
  [ client_id |-> clientId, server_id |-> EmptyId, status |-> "error",
    resolved_data |-> <<>>, operation |-> op ]

\* what the iteration leaves: the table, the verdict, and a record of the step
ItemDone(it, clientId, op, incoming, found, srvAfter, rows, verdict) ==
  [ srv |-> srvAfter,
    verdict |-> verdict,
    log |-> [ item |-> it, op |-> op, clientId |-> clientId, incoming |-> incoming,
              before |-> found, after |-> rows, verdict |-> verdict ] ]

\* db.get of serverRow; the verdict
ItemRead(it, clientId, op, incoming, found, serverId, failed, srvAfter, rows) ==
  ItemDone(it, clientId, op, incoming, found, srvAfter, rows,
           IF failed THEN ErrorVerdict(clientId, op)
           ELSE SuccessVerdict(clientId, op, incoming, found, rows, serverId))

\* the try block up to its db.run
ItemWritten(it, clientId, op, incoming, found, serverId, failed, srvAfter) ==
  ItemRead(it, clientId, op, incoming, found, serverId, failed, srvAfter,
           ServerRows(srvAfter, clientId))

\* db.get of existing
ItemFound(srv, it, fault, clientId, op, incoming, found) ==
  ItemWritten(it, clientId, op, incoming, found, ServerIdOf(srv, found),
              fault = "get" \/ (fault = "run" /\ Writes(op, incoming, found)),
              IF fault = "run" /\ Writes(op, incoming, found) THEN srv
              ELSE Written(srv, op, clientId, incoming, found))

\* clientId, op and incoming
ItemNormalised(srv, it, fault, clientId, op, incoming) ==
  ItemFound(srv, it, fault, clientId, op, incoming, ServerRows(srv, clientId))

\* One iteration of processBatch's loop on table srv, the clock reading clk.
\* fault: "none", "run" (the item's db.run rejects) or "get" (the db.get of the
\* row after the write rejects).
ProcessItem(srv, it, clk, fault) ==
  ItemNormalised(srv, it, fault, ClientIdOf(it), OrElse(it, "operation", "update"),
                 Incoming(it, clk))

\* processBatch: the loop over reqBody.items; faults[i] is the storage fault that
\* hits item i.  Gives the table, the verdicts and the log, item by item.
\* A fault "find" is the db.get of existing rejecting: that statement stands
\* before the try block, so the rejection leaves the loop and processBatch
\* itself rejects (thrown), the items before it having been processed.
RECURSIVE ProcessBatch(_, _, _, _)
ProcessBatch(srv, its, clk, faults) ==
  IF its = <<>>
  THEN [ srv |-> srv, processed_items |-> <<>>, log |-> <<>>, thrown |-> FALSE ]
  ELSE IF Head(faults) = "find"
  THEN [ srv |-> srv, processed_items |-> <<>>, log |-> <<>>, thrown |-> TRUE ]
  ELSE LET one == ProcessItem(srv, Head(its), clk, Head(faults))
           rest == ProcessBatch(one.srv, Tail(its), clk, Tail(faults))
       IN [ srv |-> rest.srv,
            processed_items |-> <<one.verdict>> \o rest.processed_items,
            log |-> <<one.log>> \o rest.log,
            thrown |-> rest.thrown ]

\* the faults that hit a statement inside the try block
Faults == {"none", "run", "get"}

\* the faults of the iteration's write alone
WriteFaults == {"none", "run"}

\* every storage fault of an iteration
StorageFaults == Faults \cup {"find"}

\* variant: the result starts as a failure
NoResultMutFailed ==
  [success |-> FALSE, synced_items |-> 0, failed_items |-> 0, errors |-> <<>>]

\* const result = { success: true, synced_items: 0, failed_items: 0, errors: [] }
NoResult == [success |-> TRUE, synced_items |-> 0, failed_items |-> 0, errors |-> <<>>]

\* ------------------------------------------- the authority on its own: any
\* client may post any batch to /batch

AuthStamps == 1..MaxStamp

\* payloads as TaskService writes them, and a bare item without data
AuthItems ==
  { [task_id |-> 1, operation |-> o,
     data |-> [id |-> 1, title |-> c.title, description |-> c.description,
               completed |-> c.completed, updated_at |-> u]] :
       o \in {"create", "update"},
       c \in {[title |-> "a", description |-> NullStr, completed |-> FALSE],
              [title |-> "b", description |-> "d", completed |-> TRUE]},
       u \in AuthStamps }
  \cup { [task_id |-> 1, operation |-> "delete", data |-> [id |-> 1, updated_at |-> u]] :
          u \in AuthStamps }
  \cup { [client_id |-> 1] }

AuthBatches == {<<i>> : i \in AuthItems} \cup {<<i, j>> : i, j \in AuthItems}

\* POST /batch arrives: router.post('/batch') takes the request body
AuthReceive ==
  /\ req = <<>> /\ plog = <<>> /\ ~thrown
  /\ \E its \in AuthBatches : req' = its
  /\ UNCHANGED <<batchSize, tasks, queue, server, now, nOps, pc, items, processed, vi, result,
                 streak, missed, plog, issued, thrown, ret, during>>

\* processBatch(body) runs on the request
AuthProcess ==
  /\ req # <<>>
  /\ \E faults \in [1..Len(req) -> StorageFaults] :
       LET r == ProcessBatch(server, req, now, faults) IN
       /\ server' = r.srv
       /\ plog' = r.log
       /\ thrown' = r.thrown
  /\ req' = <<>>
  /\ UNCHANGED <<batchSize, tasks, queue, now, nOps, pc, items, processed, vi, result,
                 streak, missed, issued, ret, during>>

\* res.status(200).json(result), or errorResponse(res, 500, ...) of the catch
\* block: the response leaves
AuthRespond ==
  /\ plog # <<>> \/ thrown
  /\ plog' = <<>>
  /\ thrown' = FALSE
  /\ UNCHANGED <<batchSize, tasks, queue, server, now, nOps, pc, items, processed, vi, result,
                 streak, missed, req, issued, ret, during>>

\* time passes at the authority (it reads the clock for missing timestamps)
AuthTick ==
  /\ req = <<>> /\ plog = <<>> /\ ~thrown
  /\ now < MaxStamp
  /\ now' = now + 1
  /\ UNCHANGED <<batchSize, tasks, queue, server, nOps, pc, items, processed, vi,
                 result, streak, missed, req, plog, issued, thrown, ret, during>>

\* new Database(), createTables(), new SyncService(db, taskService)
Init ==
  /\ batchSize \in BatchSizes
  /\ tasks = <<>>
  /\ queue = {}
  /\ server = {}
  /\ now = 1
  /\ nOps = 0
  /\ pc = "idle"
  /\ items = <<>>
  /\ processed = <<>>
  /\ vi = 0
  /\ result = NoResult
  /\ streak = 0
  /\ missed = FALSE
  /\ req = <<>>
  /\ plog = <<>>
  /\ issued = 0
  /\ thrown = FALSE
  /\ during = {}
  /\ ret = [name |-> "none", gives |-> "none"]

NextAuthority == AuthReceive \/ AuthProcess \/ AuthRespond \/ AuthTick

\* The authority on its own, its storage failing at will.
\* the authority does not read the client's batch size
InitAuthority == Init /\ batchSize = 1

SpecAuthority == InitAuthority /\ [][NextAuthority]_vars

\* ------------------------------------------------------------
\* The processBatch of services/syncService.ts, the module routes/sync.ts
\* imports: it keeps no table and makes up a server id for every item.

\* resolved_data of that processBatch
LegacyResolved(serverId, it, clk) ==
  LET d == DataOf(it) IN
  [ id          |-> serverId,
    title       |-> Coalesce(d, "title", NullStr,
                             Coalesce(it, "title", NullStr, "untitled")),
    description |-> Coalesce(d, "description", NullStr, NullStr),
    completed   |-> OrElse(d, "completed", FALSE),
    created_at  |-> Coalesce(d, "created_at", NullTime, clk),
    updated_at  |-> Coalesce(d, "updated_at", NullTime, clk) ]

\* one turn of its loop: serverId = `srv_${uuidv4().slice(0, 8)}`, the verdict pushed
LegacyProcessItem(it, clk, serverId) ==
  [ item     |-> it,
    clientId |-> ClientIdOf(it),
    verdict  |-> [ client_id     |-> ClientIdOf(it),
                   server_id     |-> serverId,
                   status        |-> "success",
                   resolved_data |-> LegacyResolved(serverId, it, clk) ] ]

\* for (const it of reqBody.items || []): the n-th id made up is n
LegacyProcessBatch(its, clk, made) ==
  [i \in 1..Len(its) |-> LegacyProcessItem(its[i], clk, made + i)]

\* POST /batch arrives at the router built on services/syncService.ts
LegacyReceive ==
  /\ issued < MaxIssued
  /\ AuthReceive

\* syncService.processBatch(body) of services/syncService.ts runs on the request
LegacyProcess ==
  /\ req # <<>>
  /\ plog' = LegacyProcessBatch(req, now, issued)
  /\ issued' = issued + Len(req)
  /\ req' = <<>>
  /\ UNCHANGED <<batchSize, tasks, queue, server, now, nOps, pc, items, processed, vi,
                 result, streak, missed, thrown, ret, during>>

NextLegacy == LegacyReceive \/ LegacyProcess \/ AuthRespond \/ AuthTick

SpecLegacy == InitAuthority /\ [][NextLegacy]_vars

\* =============================================================== the client

\* ------------------------------------------------------------- TaskService

CreateInputs ==
  { [title |-> "a"],
    [title |-> "  "],
    [description |-> "d"] }

UpdateInputs ==
  { [title |-> " b ", description |-> "d", completed |-> TRUE],
    [title |-> "  "],
    [description |-> "d"] }

\* INSERT INTO sync_queue (id, task_id, operation, data, retry_count, created_at)
QueueRow(taskId, operation, data, createdAt) ==
  [ id |-> nOps + 1, task_id |-> taskId, operation |-> operation, data |-> data,
    created_at |-> createdAt, retry_count |-> 0, error_message |-> NullStr ]

\* the history of retry exhaustion starts again with every queued mutation
Mutated(taskId) ==
  /\ nOps' = nOps + 1
  /\ streak' = 0
  /\ missed' = FALSE
  /\ during' = IF pc = "applying"
               THEN during \cup {[id |-> nOps + 1, task_id |-> taskId]}
               ELSE during
  /\ UNCHANGED <<batchSize, server, now, pc, items, processed, vi, result, req, plog,
                 issued, thrown>>

\* what the caller of a TaskService method has in hand
Outcome(name, id, input, value) ==
  [name |-> name, id |-> id, input |-> input, gives |-> value]

\* variant: the call that ends early has queued an entry all the same
GivesMutQueues(watched, name, id, input, value) ==
  /\ ret' = IF watched THEN Outcome(name, id, input, value) ELSE ret
  /\ queue' = queue \cup {QueueRow(id, "update", <<>>, now)}
  /\ UNCHANGED <<batchSize, tasks, server, now, nOps, pc, items, processed, vi,
                 result, streak, missed, req, plog, issued, thrown, during>>

\* The call ends without having written anything: return value or throw new
\* Error(value).  watched: the model keeps the outcome in ret.
Gives(watched, name, id, input, value) ==
  /\ ret' = IF watched THEN Outcome(name, id, input, value) ELSE ret
  /\ UNCHANGED <<batchSize, tasks, queue, server, now, nOps, pc, items, processed, vi,
                 result, streak, missed, req, plog, issued, thrown, during>>

\* The call ends after its statements
GivesAfter(watched, name, id, input, value) ==
  ret' = IF watched THEN Outcome(name, id, input, value) ELSE ret

\* variant: the new task counts as synced
NewTaskRowMutSynced(title, description, completedNum, clk) ==
  [ title |-> title, description |-> description, completed |-> completedNum,
    created_at |-> clk, updated_at |-> clk, is_deleted |-> 0,
    sync_status |-> "synced", server_id |-> NullId,
    last_synced_at |-> NullTime ]

\* INSERT INTO tasks (...) VALUES (?, ?, ?, ?, ?, ?, 0, 'pending', NULL, NULL)
NewTaskRow(title, description, completedNum, clk) ==
  [ title |-> title, description |-> description, completed |-> completedNum,
    created_at |-> clk, updated_at |-> clk, is_deleted |-> 0,
    sync_status |-> "pending", server_id |-> NullId,
    last_synced_at |-> NullTime ]

\* variant: the status of the task is left as it is
UpdatedTaskRowMutKeepsStatus(row, newTitle, newDescription, newCompletedNum, updatedAt) ==
  [row EXCEPT !.title = newTitle, !.description = newDescription,
              !.completed = newCompletedNum, !.updated_at = updatedAt]

\* UPDATE tasks SET title = ?, description = ?, completed = ?, updated_at = ?,
\* sync_status = 'pending' WHERE id = ?
UpdatedTaskRow(row, newTitle, newDescription, newCompletedNum, updatedAt) ==
  [row EXCEPT !.title = newTitle, !.description = newDescription,
              !.completed = newCompletedNum, !.updated_at = updatedAt,
              !.sync_status = "pending"]

\* UPDATE tasks SET is_deleted = 1, updated_at = ?, sync_status = 'pending' WHERE id = ?
DeletedTaskRow(row, updatedAt) ==
  [row EXCEPT !.is_deleted = 1, !.updated_at = updatedAt, !.sync_status = "pending"]

\* createTask; enqueues: the INSERT INTO sync_queue that follows the INSERT INTO
\* tasks is carried out (the two statements are not in one transaction)
createTaskUpTo(input, enqueues, watched) ==
  LET title == trim(OrElse(input, "title", ""))
      id == Len(tasks) + 1
      description == Coalesce(input, "description", NullStr, NullStr)
      completedNum == toInt(OrElse(input, "completed", FALSE))
  IN
  IF title = "" THEN Gives(watched, "createTask", NullId, input, "Error: Title is required")
  ELSE
    /\ nOps < MaxOps
    /\ tasks' = Append(tasks, NewTaskRow(title, description, completedNum, now))
    /\ queue' = IF enqueues
                THEN queue \cup
                     { QueueRow(id, "create",
                         [ id |-> id, title |-> title, description |-> description,
                           completed |-> OrElse(input, "completed", FALSE),
                           updated_at |-> now ],
                         now) }
                ELSE queue
    /\ Mutated(id)
    /\ GivesAfter(watched, "createTask", NullId, input, "Task")   \* return rowToTask(row)

createTask(input) == createTaskUpTo(input, TRUE, FALSE)

\* updateTask; enqueues as for createTaskUpTo
updateTaskUpTo(id, updates, enqueues, watched) ==
  IF id \notin DOMAIN tasks THEN Gives(watched, "updateTask", id, updates, "null")   \* return null
  ELSE
    LET existing == tasks[id]
        newTitle == IF "title" \in DOMAIN updates THEN trim(updates.title)
                    ELSE existing.title
        newDescription == IF "description" \in DOMAIN updates THEN updates.description
                          ELSE existing.description
        newCompletedNum == IF "completed" \in DOMAIN updates THEN toInt(updates.completed)
                           ELSE toInt(toBool(existing.completed))
        updatedAt == now
    IN
    IF newTitle = "" THEN Gives(watched, "updateTask", id, updates, "Error: Title cannot be empty")
    ELSE
      /\ nOps < MaxOps
      /\ tasks' = [tasks EXCEPT ![id] =
           UpdatedTaskRow(@, newTitle, newDescription, newCompletedNum, updatedAt)]
      /\ queue' = IF enqueues
                  THEN queue \cup
                       { QueueRow(id, "update",
                           [ id |-> id, title |-> newTitle,
                             description |-> newDescription,
                             completed |-> toBool(newCompletedNum),
                             updated_at |-> updatedAt ],
                           updatedAt) }
                  ELSE queue
      /\ Mutated(id)
      /\ GivesAfter(watched, "updateTask", id, updates, "Task")   \* return rowToTask(row)

updateTask(id, updates) == updateTaskUpTo(id, updates, TRUE, FALSE)

\* deleteTask; enqueues as for createTaskUpTo
deleteTaskUpTo(id, enqueues, watched) ==
  IF id \notin DOMAIN tasks THEN Gives(watched, "deleteTask", id, <<>>, "false")     \* return false
  ELSE
    LET updatedAt == now IN
    /\ nOps < MaxOps
    /\ tasks' = [tasks EXCEPT ![id] = DeletedTaskRow(@, updatedAt)]
    /\ queue' = IF enqueues
                THEN queue \cup
                     { QueueRow(id, "delete", [id |-> id, updated_at |-> updatedAt],
                                updatedAt) }
                ELSE queue
    /\ Mutated(id)
    /\ GivesAfter(watched, "deleteTask", id, <<>>, "true")   \* return true

deleteTask(id) == deleteTaskUpTo(id, TRUE, FALSE)

\* the calls cut short after their first statement: the process stops, or the
\* INSERT INTO sync_queue rejects
createTaskCut(input) == createTaskUpTo(input, FALSE, FALSE)

updateTaskCut(id, updates) == updateTaskUpTo(id, updates, FALSE, FALSE)

deleteTaskCut(id) == deleteTaskUpTo(id, FALSE, FALSE)

\* ------------------------------------------------------ SyncService.sync()

Range(f) == {f[i] : i \in DOMAIN f}

\* variant: the LIMIT rows in any order, whatever their created_at
BatchesMutUnordered(q, limit) ==
  LET n == Min(limit, Cardinality(q)) IN
  { b \in [1..n -> q] : \A i, j \in 1..n : i < j => b[i] # b[j] }

\* SELECT * FROM sync_queue ORDER BY created_at ASC LIMIT ?  -- the order of rows
\* with equal created_at is not fixed by the query
Batches(q, limit) ==
  LET n == Min(limit, Cardinality(q)) IN
  { b \in [1..n -> q] :
      /\ \A i, j \in 1..n : i < j => b[i] # b[j] /\ b[i].created_at <= b[j].created_at
      /\ \A e \in q \ Range(b) : \A i \in 1..n : b[i].created_at <= e.created_at }

\* variant: the payload is built from the task as it is now
PayloadItemsMutCurrent(its) ==
  [ i \in DOMAIN its |->
      [ id |-> its[i].id, task_id |-> its[i].task_id, operation |-> its[i].operation,
        data |-> [ id |-> its[i].task_id,
                   title |-> tasks[its[i].task_id].title,
                   description |-> tasks[its[i].task_id].description,
                   completed |-> toBool(tasks[its[i].task_id].completed),
                   updated_at |-> tasks[its[i].task_id].updated_at ],
        created_at |-> its[i].created_at,
        retry_count |-> its[i].retry_count ] ]

\* payloadItems: data is JSON.parse of the stored JSON text
PayloadItems(its) ==
  [ i \in DOMAIN its |->
      [ id |-> its[i].id, task_id |-> its[i].task_id, operation |-> its[i].operation,
        data |-> its[i].data, created_at |-> its[i].created_at,
        retry_count |-> its[i].retry_count ] ]

\* p.client_id ?? p.task_id ?? null
VerdictClientId(p) ==
  IF "client_id" \in DOMAIN p /\ p.client_id # NullId THEN p.client_id
  ELSE OrElse(p, "task_id", NullId)

\* sync() on an empty queue: return result
SyncEmpty ==
  /\ pc = "idle" /\ queue = {}
  /\ result' = NoResult
  /\ pc' = "returned"
  /\ UNCHANGED <<batchSize, tasks, queue, server, now, nOps, items, processed, vi,
                 streak, missed, req, plog, issued, thrown, ret, during>>

\* sync() reads its batch and posts it; the authority runs processBatch on the
\* payload and its response arrives.  F: the storage faults that may hit the
\* authority meanwhile.
SyncPost(F) ==
  /\ pc = "idle" /\ queue # {}
  /\ result' = NoResult
  /\ \E batch \in Batches(queue, batchSize) :
       /\ items' = batch
       /\ \E faults \in [1..Len(batch) -> F] :
            LET r == ProcessBatch(server, PayloadItems(batch), now, faults) IN
            /\ server' = r.srv
            /\ processed' = r.processed_items
  /\ vi' = 0
  /\ pc' = "applying"
  /\ UNCHANGED <<batchSize, tasks, queue, now, nOps, streak, missed, req, plog, issued, thrown, ret, during>>

\* variant: updated_at is left as the task has it
MarkSyncedMutStatusOnly(row, serverId, updated_at) ==
  [row EXCEPT !.sync_status = "synced", !.server_id = serverId,
              !.last_synced_at = updated_at]

\* variant: the statement also brings a deleted task back
MarkSyncedMutUndeletes(row, serverId, updated_at) ==
  [row EXCEPT !.sync_status = "synced", !.server_id = serverId,
              !.last_synced_at = updated_at, !.updated_at = updated_at,
              !.is_deleted = 0]

\* UPDATE tasks SET sync_status = 'synced', server_id = ?, last_synced_at = ?,
\* updated_at = ? WHERE id = ?
MarkSynced(row, serverId, updated_at) ==
  [row EXCEPT !.sync_status = "synced", !.server_id = serverId,
              !.last_synced_at = updated_at, !.updated_at = updated_at]

\* variant: the statement removes nothing
DeleteQueueMutKeeps(q, clientId, entry) == q

\* DELETE FROM sync_queue WHERE task_id = ?   (entry: the batch entry the
\* verdict answers, which the statement does not use)
DeleteQueue(q, clientId, entry) == {e \in q : e.task_id # clientId}

\* variant: a failed item fails the whole call
FailedItemMutFailsCall(res, clientId, clk) ==
  [res EXCEPT
     !.success = FALSE,
     !.failed_items = @ + 1,
     !.errors = Append(@, [ task_id |-> clientId, operation |-> "unknown",
                            error |-> "failed", timestamp |-> clk ])]

\* result.failed_items += 1 and the error entry of a verdict that is no success
FailedItem(res, clientId, clk) ==
  [res EXCEPT
     !.failed_items = @ + 1,
     !.errors = Append(@, [ task_id |-> clientId, operation |-> "unknown",
                            error |-> "failed", timestamp |-> clk ])]

\* variant: a verdict flagged as conflict leaves no note
ConflictNoteMutSilent(errors, p, clientId, clk) == errors

\* result.errors.push({...}) of a success verdict with p.conflict
ConflictNote(errors, p, clientId, clk) ==
  IF OrElse(p, "conflict", FALSE)
  THEN Append(errors, [ task_id |-> clientId,
                        operation |-> OrElse(p, "operation", "update"),
                        error |-> "Conflict resolved using last-write-wins",
                        timestamp |-> clk ])
  ELSE errors

\* one iteration of the loop over processed; after the last one, return result
SyncApply ==
  /\ pc = "applying" /\ vi < Len(processed)
  /\ LET p == processed[vi + 1]
         clientId == VerdictClientId(p)
     IN
     IF p.status = "success" THEN
       LET serverId == p.server_id
           updated_at == Coalesce(p.resolved_data, "updated_at", NullTime, now)
       IN
       /\ tasks' = [ t \in DOMAIN tasks |->
                       IF t = clientId THEN MarkSynced(tasks[t], serverId, updated_at)
                       ELSE tasks[t] ]
       /\ queue' = DeleteQueue(queue, clientId, items[vi + 1])
       /\ result' = [result EXCEPT
            !.synced_items = @ + 1,
            !.errors = ConflictNote(@, p, clientId, now)]
     ELSE
       /\ result' = FailedItem(result, clientId, now)
       /\ UNCHANGED <<tasks, queue>>
  /\ vi' = vi + 1
  /\ pc' = IF vi + 1 = Len(processed) THEN "returned" ELSE "applying"
  /\ streak' = -1
  /\ UNCHANGED <<batchSize, server, now, nOps, items, processed, missed, req, plog, issued, thrown, ret, during>>

Reasons == {"Network Error"}

\* variant: error_message is not written
RetriedMutNoMessage(e, message) ==
  [e EXCEPT !.retry_count = @ + 1]

\* UPDATE sync_queue SET retry_count = retry_count + 1, error_message = ? WHERE id = ?
Retried(e, message) ==
  [e EXCEPT !.retry_count = @ + 1, !.error_message = message]

\* variant: the task is marked one failure early
ExhaustedMutEarly(e) == e.retry_count + 2 >= maxRetries

\* variant: one more attempt before the task is in error
ExhaustedMutLate(item) == item.retry_count + 1 > maxRetries

\* (item.retry_count ?? 0) + 1 >= this.maxRetries
Exhausted(item) == item.retry_count + 1 >= maxRetries

\* sync() reads its batch and posts it, and axios.post rejects: the catch block.
\* delivered: the authority processed the batch and the response was lost;
\* otherwise the request never reached it.
SyncFail(delivered) ==
  /\ pc = "idle" /\ queue # {}
  /\ \E batch \in Batches(queue, batchSize) : \E message \in Reasons :
       /\ \A i \in DOMAIN batch : batch[i].retry_count < maxRetries + MaxExtraRetries
       /\ items' = batch
       /\ queue' = { IF \E i \in DOMAIN batch : batch[i].id = e.id
                     THEN Retried(e, message) ELSE e : e \in queue }
       /\ tasks' = [ t \in DOMAIN tasks |->
                       IF \E i \in DOMAIN batch : batch[i].task_id = t /\ Exhausted(batch[i])
                       THEN [tasks[t] EXCEPT !.sync_status = "error"]
                       ELSE tasks[t] ]
       /\ result' = [ success |-> FALSE, synced_items |-> 0,
                      failed_items |-> Len(batch),
                      errors |-> << [ task_id |-> NullId, operation |-> "batch",
                                      error |-> message, timestamp |-> now ] >> ]
       /\ server' = IF delivered
                    THEN ProcessBatch(server, PayloadItems(batch), now,
                                      [i \in DOMAIN batch |-> "none"]).srv
                    ELSE server
       /\ missed' = (missed \/ \A i \in DOMAIN batch : batch[i].id # nOps)
  /\ pc' = "returned"
  /\ streak' = IF streak >= 0 THEN streak + 1 ELSE streak
  /\ UNCHANGED <<batchSize, now, nOps, processed, vi, req, plog, issued, thrown, ret, during>>

\* the caller has the result; the locals of the call are gone
SyncDone ==
  /\ pc = "returned"
  /\ pc' = "idle"
  /\ items' = <<>>
  /\ processed' = <<>>
  /\ vi' = 0
  /\ result' = NoResult
  /\ during' = {}
  /\ UNCHANGED <<batchSize, tasks, queue, server, now, nOps, streak, missed, req, plog,
                 issued, thrown, ret>>

\* time passes between two handler calls.  A clock value no mutation has read
\* yet is not left behind: that gives the same orders of timestamps.
Tick ==
  /\ pc = "idle"
  /\ now <= nOps /\ now < MaxTime
  /\ now' = now + 1
  /\ UNCHANGED <<batchSize, tasks, queue, server, nOps, pc, items, processed, vi,
                 result, streak, missed, req, plog, issued, thrown, ret, during>>

TaskIds == 1..MaxOps

Next ==
  \/ Tick
  \/ pc = "idle" /\ \E input \in CreateInputs : createTask(input)
  \/ pc = "idle" /\ \E id \in TaskIds : \E updates \in UpdateInputs :
                      updateTask(id, updates)
  \/ pc = "idle" /\ \E id \in TaskIds : deleteTask(id)
  \/ SyncEmpty
  \/ SyncPost({"none"})
  \/ SyncApply
  \/ SyncFail(FALSE)
  \/ SyncDone

\* The client and the authority, the authority's storage working and the
\* network failing at will before a request is delivered.
Spec == Init /\ [][Next]_vars

NextFaulty ==
  \/ Tick
  \/ pc = "idle" /\ \E input \in CreateInputs : createTask(input)
  \/ pc = "idle" /\ \E id \in TaskIds : \E updates \in UpdateInputs :
                      updateTask(id, updates)
  \/ pc = "idle" /\ \E id \in TaskIds : deleteTask(id)
  \/ SyncEmpty
  \/ SyncPost(Faults)
  \/ SyncApply
  \/ SyncDone

\* The client and the authority, the network working and the authority's
\* storage failing at will.
SpecFaulty == Init /\ [][NextFaulty]_vars

NextCut ==
  \/ Tick
  \/ pc = "idle" /\ \E input \in CreateInputs : createTask(input)
  \/ pc = "idle" /\ \E id \in TaskIds : \E updates \in UpdateInputs :
                      updateTask(id, updates)
  \/ pc = "idle" /\ \E id \in TaskIds : deleteTask(id)
  \/ pc = "idle" /\ \E input \in CreateInputs : createTaskCut(input)
  \/ pc = "idle" /\ \E id \in TaskIds : \E updates \in UpdateInputs :
                      updateTaskCut(id, updates)
  \/ pc = "idle" /\ \E id \in TaskIds : deleteTaskCut(id)
  \/ SyncEmpty
  \/ SyncPost({"none"})
  \/ SyncApply
  \/ SyncFail(FALSE)
  \/ SyncDone

\* As Spec, and a mutation may stop between its two statements.
SpecCut == Init /\ [][NextCut]_vars

NextFull ==
  \/ Tick
  \/ pc = "idle" /\ \E input \in CreateInputs : createTask(input)
  \/ pc = "idle" /\ \E id \in TaskIds : \E updates \in UpdateInputs :
                      updateTask(id, updates)
  \/ pc = "idle" /\ \E id \in TaskIds : deleteTask(id)
  \/ SyncEmpty
  \/ SyncPost(WriteFaults)
  \/ SyncApply
  \/ SyncFail(FALSE)
  \/ SyncDone

\* The client and the authority, the network failing at will before a request
\* is delivered and the authority's writes (db.run) failing at will.
SpecFull == Init /\ [][NextFull]_vars

\* variant: entries that have used up their retries are not counted
PendingCountMutLive(q) == Cardinality({e \in q : e.retry_count < maxRetries})

\* SELECT COUNT(*) as c FROM sync_queue
PendingCount(q) == Cardinality(q)

\* SELECT MAX(last_synced_at) as t FROM tasks WHERE last_synced_at IS NOT NULL:
\* t is null when no row qualifies
LastSync(ts) ==
  LET stamps == {ts[id].last_synced_at : id \in DOMAIN ts} \ {NullTime} IN
  IF stamps = {} THEN NullTime
  ELSE CHOOSE m \in stamps : \A t \in stamps : t <= m

\* getStatus(): it reads and returns; watched as for the TaskService calls
getStatus(watched) ==
  /\ ret' = IF watched
            THEN [ name |-> "getStatus",
                   status |-> [ pending_sync_count |-> PendingCount(queue),
                                last_sync_timestamp |-> LastSync(tasks),
                                is_online |-> TRUE,
                                sync_queue_size |-> PendingCount(queue) ] ]
            ELSE ret
  /\ UNCHANGED <<batchSize, tasks, queue, server, now, nOps, pc, items, processed, vi,
                 result, streak, missed, req, plog, issued, thrown, during>>

\* the caller of getStatus() has the status; nothing else is kept of the call
StatusTaken ==
  /\ ret.name = "getStatus"
  /\ ret' = [name |-> "none", gives |-> "none"]
  /\ UNCHANGED <<batchSize, tasks, queue, server, now, nOps, pc, items, processed, vi,
                 result, streak, missed, req, plog, issued, thrown, during>>

NextStatus ==
  \/ ret.name = "none" /\ Next
  \/ ret.name = "none" /\ getStatus(TRUE)
  \/ StatusTaken

\* As Spec, with getStatus() called at will, in the middle of a sync() too; its
\* outcome is watched and taken by the caller before the next step.
SpecStatus == Init /\ [][NextStatus]_vars

\* As Spec, with a caller that goes on calling sync(): a sync() call that is
\* possible is made, and a call that has started runs to its return.  The
\* batch calls that fail are finitely many (a batch fails at most
\* maxRetries + MaxExtraRetries times), so from some point on every batch call
\* is delivered; the mutations are finitely many as well.
\* The fairness of the call itself, WF_vars(SyncPost({"none"})), is written
\* out: the call is enabled exactly when pc = "idle" and the queue is not empty,
\* and it is the one step of Next from "idle" to "applying".
SpecLive ==
  /\ Init /\ [][Next]_vars
  /\ WF_vars(SyncApply)
  /\ WF_vars(SyncDone)
  /\ \/ []<>(pc # "idle" \/ queue = {})
     \/ []<><<pc = "idle" /\ pc' = "applying">>_vars

NextInterleaved ==
  \/ Tick
  \/ pc \in {"idle", "applying"} /\ \E input \in CreateInputs : createTask(input)
  \/ pc \in {"idle", "applying"} /\ \E id \in TaskIds : \E updates \in UpdateInputs :
                                    updateTask(id, updates)
  \/ pc \in {"idle", "applying"} /\ \E id \in TaskIds : deleteTask(id)
  \/ SyncEmpty
  \/ SyncPost({"none"})
  \/ SyncApply
  \/ SyncFail(FALSE)
  \/ SyncDone

\* As Spec, and the TaskService calls also run while a sync() is suspended:
\* on its batch call (the response is there, no verdict applied yet) or on a
\* statement of its loop over the verdicts.
SpecInterleaved == Init /\ [][NextInterleaved]_vars

NextLost ==
  \/ Tick
  \/ pc = "idle" /\ \E input \in CreateInputs : createTask(input)
  \/ pc = "idle" /\ \E id \in TaskIds : \E updates \in UpdateInputs :
                      updateTask(id, updates)
  \/ pc = "idle" /\ \E id \in TaskIds : deleteTask(id)
  \/ SyncEmpty
  \/ SyncPost({"none"})
  \/ SyncApply
  \/ SyncFail(TRUE)
  \/ SyncDone

\* The client and the authority, storage working and the network losing
\* responses at will: the authority has processed the batch, axios.post rejects.
SpecLost == Init /\ [][NextLost]_vars

NextStore ==
  \/ Tick
  \/ pc = "idle" /\ \E input \in CreateInputs : createTaskUpTo(input, TRUE, TRUE)
  \/ pc = "idle" /\ \E id \in TaskIds : \E updates \in UpdateInputs :
                      updateTaskUpTo(id, updates, TRUE, TRUE)
  \/ pc = "idle" /\ \E id \in TaskIds : deleteTaskUpTo(id, TRUE, TRUE)
  \/ SyncEmpty
  \/ SyncPost({"none"})
  \/ SyncApply
  \/ SyncDone

\* The client and the authority with network and storage working, the outcome
\* of every TaskService call watched.
SpecStore == Init /\ [][NextStore]_vars

\* ================================================================== claims

\* what a verdict's resolved record shows of a server row
Shown(row) ==
  [ title |-> row.title, description |-> row.description,
    completed |-> toBool(row.completed), updated_at |-> row.updated_at ]

ShownBy(resolved) ==
  [ title |-> resolved.title, description |-> resolved.description,
    completed |-> resolved.completed, updated_at |-> resolved.updated_at ]

\* a create/update item with a full payload that found a record of its client id
\* and got a success verdict
IsWriteOnExisting(L) ==
  /\ L.op \in {"create", "update"}
  /\ "data" \in DOMAIN L.item
  /\ L.before # {}
  /\ L.verdict.status = "success"

WriteAccepted(L, ex) ==
  LET d == L.item.data IN
  /\ L.after = {[ex EXCEPT !.title = d.title, !.description = d.description,
                           !.completed = toInt(d.completed), !.is_deleted = 0,
                           !.updated_at = d.updated_at]}
  /\ ShownBy(L.verdict.resolved_data) =
       [ title |-> d.title, description |-> d.description,
         completed |-> d.completed, updated_at |-> d.updated_at ]

WriteRejected(L, ex) ==
  /\ L.after = {ex}
  /\ ShownBy(L.verdict.resolved_data) = Shown(ex)
  /\ L.verdict.resolved_data.id = ex.id
  /\ L.verdict.conflict = TRUE

\* C1: last-write-wins in processBatch.  For a create or update item that finds
\* a record of its client id with updated_at = T0: an incoming updated_at > T0
\* makes the record's title, description, completed and updated_at the incoming
\* ones and the resolved record shows them; an incoming updated_at < T0 leaves
\* the record as it was, the resolved record is that record and conflict = true.
C1_LastWriteWins ==
  \A i \in DOMAIN plog :
    LET L == plog[i] IN
    IsWriteOnExisting(L) =>
      \A ex \in L.before :
        /\ L.item.data.updated_at > ex.updated_at => WriteAccepted(L, ex)
        /\ L.item.data.updated_at < ex.updated_at => WriteRejected(L, ex)

\* one batch in which a newer write was applied and an older one rejected
C1_Witness ==
  \E i, j \in DOMAIN plog :
    /\ IsWriteOnExisting(plog[i]) /\ IsWriteOnExisting(plog[j])
    /\ \E ex \in plog[i].before :
         /\ plog[i].item.data.updated_at > ex.updated_at
         /\ plog[i].item.data.title # ex.title
    /\ \E ex \in plog[j].before :
         /\ plog[j].item.data.updated_at < ex.updated_at
         /\ plog[j].item.data.title # ex.title
         /\ plog[j].verdict.conflict

QueueIds(q) == {e.id : e \in q}

EntryOf(q, id) == CHOOSE e \in q : e.id = id

\* the step is an iteration of sync()'s loop over the verdicts
IsApplyStep == pc = "applying" /\ vi' = vi + 1

\* the step is a sync() call whose batch call failed
IsFailStep == pc = "idle" /\ pc' = "returned" /\ result'.success = FALSE

SuccessCount(ps) == Cardinality({i \in DOMAIN ps : ps[i].status = "success"})

\* C3: when sync() applies a success verdict, the task of its client id ends
\* with sync_status = synced, server_id = the verdict's server id, last_synced_at
\* and updated_at = the resolved record's updated_at, the queue entry the verdict
\* answers is gone from the queue, and synced_items has grown by one (so that
\* the result counts the success verdicts).
C3_SuccessApplied ==
  [][ /\ (IsApplyStep /\ processed[vi + 1].status = "success") =>
           LET p == processed[vi + 1]
               t == p.client_id
           IN /\ t \in DOMAIN tasks'
              /\ tasks'[t].sync_status = "synced"
              /\ tasks'[t].server_id = p.server_id
              /\ tasks'[t].last_synced_at = p.resolved_data.updated_at
              /\ tasks'[t].updated_at = p.resolved_data.updated_at
              /\ items[vi + 1].task_id = t
              /\ items[vi + 1].id \notin QueueIds(queue')
              /\ result'.synced_items = result.synced_items + 1
      /\ (IsApplyStep /\ pc' = "returned") =>
           result'.synced_items = SuccessCount(processed)
    ]_vars

\* sync() has returned after a batch with an error and a success verdict, the
\* task of the success verdict is synced at the resolved record's updated_at
C3_Witness ==
  /\ pc = "returned" /\ result.synced_items >= 1 /\ result.failed_items >= 1
  /\ \E i \in DOMAIN processed :
       /\ processed[i].status = "success"
       /\ tasks[processed[i].client_id].sync_status = "synced"
       /\ tasks[processed[i].client_id].server_id = processed[i].server_id
       /\ tasks[processed[i].client_id].last_synced_at < now
       /\ items[i].id \notin QueueIds(queue)

\* C4: sync() removes a queue entry only if that entry was in the batch sent
\* and a success verdict came back for it; an entry that was not in the batch
\* is still in the queue after the call.
C4_RemovesOnlyConfirmed ==
  [][ \A e \in queue :
        e.id \notin QueueIds(queue') =>
          \E i \in DOMAIN items :
            /\ items[i].id = e.id
            /\ i \in DOMAIN processed /\ processed[i].status = "success"
    ]_vars

\* C5: when the batch call fails, exactly the entries of the attempted batch
\* have retry_count + 1 and error_message = the failure reason, no entry is
\* removed, the entries outside the batch are unchanged, every task owning a
\* batch entry whose retry_count has reached maxRetries has sync_status = error,
\* and the call returns success = false, synced_items = 0, failed_items = the
\* batch length and exactly one error entry.
C5_TransportFailure ==
  [][ IsFailStep =>
        LET batchIds == {items'[i].id : i \in DOMAIN items'} IN
        /\ Len(items') = Min(batchSize, Cardinality(queue))
        /\ batchIds \subseteq QueueIds(queue)
        /\ Cardinality(batchIds) = Len(items')
        /\ Len(result'.errors) = 1
        /\ result'.synced_items = 0
        /\ result'.failed_items = Len(items')
        /\ QueueIds(queue') = QueueIds(queue)
        /\ Cardinality(queue') = Cardinality(queue)
        /\ \A e \in queue :
             IF e.id \in batchIds
             THEN [e EXCEPT !.retry_count = e.retry_count + 1,
                            !.error_message = result'.errors[1].error] \in queue'
             ELSE e \in queue'
        /\ \A e \in queue' :
             (e.id \in batchIds /\ e.retry_count >= maxRetries) =>
               tasks'[e.task_id].sync_status = "error"
    ]_vars

\* a failed sync() has returned: an entry of its batch has reached maxRetries and
\* its task is in error, an entry outside the batch is as it was enqueued
C5_Witness ==
  /\ pc = "returned" /\ ~result.success
  /\ \E e \in queue :
       /\ \E i \in DOMAIN items : items[i].id = e.id
       /\ e.retry_count = maxRetries
       /\ e.error_message \in Reasons
       /\ tasks[e.task_id].sync_status = "error"
  /\ \E e \in queue :
       /\ \A i \in DOMAIN items : items[i].id # e.id
       /\ e.retry_count = 0 /\ e.error_message = NullStr

\* the entry of the last mutation, while only failed sync() calls followed it
Fresh(e) == e.id = nOps /\ streak >= 0 /\ pc \in {"idle", "returned"}

\* C6 as claimed: from a freshly enqueued entry and with no mutation since, after
\* exactly maxRetries consecutive transport-failed sync() calls the entry has
\* retry_count = maxRetries and its task sync_status = error; after fewer the
\* task is still pending.
C6_Original ==
  \A e \in queue :
    Fresh(e) =>
      /\ streak = maxRetries =>
           e.retry_count = maxRetries /\ tasks[e.task_id].sync_status = "error"
      /\ streak < maxRetries => tasks[e.task_id].sync_status = "pending"

\* C6 amended: the same for failed sync() calls whose batch each held the entry
\* (its retry_count then counts them), the task being still pending after fewer
\* than maxRetries of them unless another entry of the task has reached
\* maxRetries.
C6_RetryExhaustion ==
  \A e \in queue :
    (Fresh(e) /\ ~missed) =>
      /\ e.retry_count = streak
      /\ streak >= maxRetries => tasks[e.task_id].sync_status = "error"
      /\ (streak < maxRetries /\
          \A o \in queue : o.task_id = e.task_id => o.retry_count < maxRetries) =>
           tasks[e.task_id].sync_status = "pending"

\* maxRetries failed sync() calls in a row, each with the fresh entry in its batch
C6_Witness ==
  \E e \in queue :
    /\ Fresh(e) /\ ~missed /\ streak = maxRetries
    /\ e.retry_count = maxRetries
    /\ tasks[e.task_id].sync_status = "error"

\* C7: no queue entry has retry_count greater than maxRetries.
C7_RetriesCapped ==
  \A e \in queue : e.retry_count <= maxRetries

\* C8: once a task is in error by retry exhaustion, no sync() step changes its
\* sync_status, and its exhausted queue entry stays in the queue (only a new
\* mutation of the task, which enqueues, moves it).
C8_ErrorIsTerminal ==
  [][ \A t \in DOMAIN tasks :
        (tasks[t].sync_status = "error" /\ nOps' = nOps) =>
          /\ tasks'[t].sync_status = "error"
          /\ \A e \in queue :
               (e.task_id = t /\ e.retry_count >= maxRetries) =>
                 e.id \in QueueIds(queue')
    ]_vars

\* C9: for an error verdict sync() adds one to failed_items and one error entry,
\* keeps success = true and does not touch the task; and when sync() returns,
\* the queue entry that got the error verdict is still in the queue, whatever
\* the other verdicts of the response.
C9_ErrorVerdict ==
  [][ /\ (IsApplyStep /\ processed[vi + 1].status = "error") =>
           /\ result'.failed_items = result.failed_items + 1
           /\ Len(result'.errors) = Len(result.errors) + 1
           /\ result'.success
           /\ tasks' = tasks
      /\ (IsApplyStep /\ pc' = "returned") =>
           \A i \in DOMAIN processed :
             processed[i].status = "error" => items[i].id \in QueueIds(queue')
    ]_vars

\* C10: a queue entry whose attempt fails is retained with retry_count + 1, be
\* the failure a failed batch call or an error verdict for its item.
C10_RetainedAndCounted ==
  [][ /\ IsFailStep =>
           \A i \in DOMAIN items' :
             /\ items'[i].id \in QueueIds(queue')
             /\ EntryOf(queue', items'[i].id).retry_count = items'[i].retry_count + 1
      /\ (IsApplyStep /\ processed[vi + 1].status = "error") =>
           /\ items[vi + 1].id \in QueueIds(queue')
           /\ EntryOf(queue', items[vi + 1].id).retry_count
                = items[vi + 1].retry_count + 1
    ]_vars

\* the step is the return of a sync() call that had a response to its batch call
IsResponseReturn == pc = "applying" /\ pc' = "returned"

\* the step is a sync() call on a queue that is not empty, whose batch call threw
IsTransportFailure == pc = "idle" /\ queue # {} /\ pc' = "returned"

ErrorCount(ps) == Cardinality({i \in DOMAIN ps : ps[i].status = "error"})

C12_EmptyQueueSync ==
  [][ (pc = "idle" /\ queue = {} /\ pc' = "returned") =>
        /\ result' = [success |-> TRUE, synced_items |-> 0, failed_items |-> 0,
                      errors |-> <<>>]
        /\ tasks' = tasks /\ queue' = {} /\ server' = server
        /\ items' = <<>> /\ processed' = <<>>
    ]_vars

\* sync() has returned from an empty queue, after an earlier call has synced a task
C12_Witness ==
  /\ pc = "returned" /\ queue = {} /\ items = <<>>
  /\ result = [success |-> TRUE, synced_items |-> 0, failed_items |-> 0,
                errors |-> <<>>]
  /\ \E t \in DOMAIN tasks : tasks[t].sync_status = "synced"
  /\ server # {}

\* the step is a sync() call that reads a batch and posts it
IsSendStep == pc = "idle" /\ queue # {} /\ pc' \in {"applying", "returned"}

\* C13: the batch of sync() is made of the min(batchSize, queue length) entries
\* of the queue with the smallest created_at, in ascending created_at order: no
\* entry is sent while an older one is left out, and the authority answers the
\* items in that order, so that of two entries of a task with different
\* created_at the earlier one is processed first.
C13_OldestFirst ==
  [][ IsSendStep =>
        LET n == Len(items') IN
        /\ n = IF batchSize <= Cardinality(queue) THEN batchSize
                ELSE Cardinality(queue)
        /\ \A i \in 1..n : items'[i] \in queue
        /\ \A i, j \in 1..n :
             i < j => /\ items'[i].id # items'[j].id
                      /\ items'[i].created_at <= items'[j].created_at
        /\ \A e \in queue :
             (\A i \in 1..n : items'[i].id # e.id) =>
               \A i \in 1..n : items'[i].created_at <= e.created_at
        /\ pc' = "applying" =>
             /\ Len(processed') = n
             /\ \A i \in 1..n :
                  /\ processed'[i].client_id = items'[i].task_id
                  /\ processed'[i].operation = items'[i].operation
    ]_vars

\* a batch with two entries of one task, enqueued at different times, has been
\* answered: the earlier one first
C13_Witness ==
  /\ pc = "applying" /\ vi = 0 /\ Len(items) = 2 /\ Len(processed) = 2
  /\ items[1].task_id = items[2].task_id
  /\ items[1].created_at < items[2].created_at
  /\ items[1].operation = "create" /\ items[2].operation # "create"
  /\ processed[1].operation = "create"

\* the step is a createTask, updateTask or deleteTask call that wrote
IsMutationStep == nOps' = nOps + 1

\* the fields of a create or update payload
Snapshot(d) ==
  [ title |-> d.title, description |-> d.description, completed |-> d.completed,
    updated_at |-> d.updated_at ]

\* C14: the data of a queue entry is the task as it was when the operation was
\* enqueued; later createTask, updateTask and deleteTask calls leave the entry
\* as it is, and the item sync() sends for it carries the stored data, not the
\* task's current values (seen in the record the authority resolves for the
\* first item of a batch when it has no newer record of the task).
C14_QueueSnapshot ==
  [][ /\ IsMutationStep =>
           /\ queue \subseteq queue'
           /\ \A e \in queue' \ queue :
                e.operation \in {"create", "update"} =>
                  Snapshot(e.data) =
                    [ title |-> tasks'[e.task_id].title,
                      description |-> tasks'[e.task_id].description,
                      completed |-> toBool(tasks'[e.task_id].completed),
                      updated_at |-> tasks'[e.task_id].updated_at ]
      /\ (IsSendStep /\ pc' = "applying") =>
           /\ items'[1] \in queue
           /\ ( /\ items'[1].operation \in {"create", "update"}
                /\ \A r \in server : r.client_id = items'[1].task_id =>
                                        r.updated_at <= items'[1].data.updated_at )
                => /\ processed'[1].status = "success"
                   /\ Snapshot(processed'[1].resolved_data) = Snapshot(items'[1].data)
    ]_vars

\* the authority has resolved a create item to the title the task had when it
\* was created, the task having another title by now
C14_Witness ==
  /\ pc = "applying" /\ Len(items) >= 1
  /\ items[1].operation = "create"
  /\ items[1].data.title # tasks[items[1].task_id].title
  /\ processed[1].status = "success"
  /\ processed[1].resolved_data.title = items[1].data.title

\* C15: a task with sync_status = pending has a queue entry that refers to it,
\* in every reachable state, those reached by mutations cut short between their
\* two writes included.
C15_PendingIsQueued ==
  \A t \in DOMAIN tasks :
    tasks[t].sync_status = "pending" => \E e \in queue : e.task_id = t

\* the step is a createTask call that wrote
IsCreateStep == IsMutationStep /\ Len(tasks') = Len(tasks) + 1

\* the step is an updateTask or deleteTask call that wrote
IsChangeStep == IsMutationStep /\ Len(tasks') = Len(tasks)

\* C16: a createTask call with a title that is not empty once trimmed adds a
\* task with sync_status = pending, is_deleted = false, server_id and
\* last_synced_at null and created_at = updated_at, and adds exactly one queue
\* entry, of operation create, with the new task's id and retry_count = 0.
C16_CreateEnqueues ==
  [][ IsCreateStep =>
        LET id == Len(tasks') IN
        /\ \A t \in DOMAIN tasks : tasks'[t] = tasks[t]
        /\ tasks'[id].title # "" /\ tasks'[id].title = trim(tasks'[id].title)
        /\ tasks'[id].sync_status = "pending"
        /\ tasks'[id].is_deleted = 0
        /\ tasks'[id].server_id = NullId
        /\ tasks'[id].last_synced_at = NullTime
        /\ tasks'[id].created_at = now /\ tasks'[id].updated_at = now
        /\ queue \subseteq queue'
        /\ Cardinality(queue' \ queue) = 1
        /\ \A e \in queue' \ queue :
             /\ e.operation = "create" /\ e.task_id = id /\ e.retry_count = 0
             /\ e.id \notin QueueIds(queue)
    ]_vars

\* a created task waits with its one create entry, the first task being synced
C16_Witness ==
  /\ pc = "idle" /\ Len(tasks) = 2
  /\ tasks[1].sync_status = "synced"
  /\ tasks[2].sync_status = "pending" /\ tasks[2].created_at = tasks[2].updated_at
  /\ queue # {}
  /\ \A e \in queue : e.operation = "create" /\ e.task_id = 2 /\ e.retry_count = 0

\* C17: an updateTask or deleteTask call that succeeds on an existing task sets
\* the task's sync_status to pending whatever it was, its updated_at to the time
\* of the call, and adds exactly one queue entry with the task's id, the
\* operation of the call and retry_count = 0; no other task and no queue entry
\* that was there is changed.
C17_ChangeEnqueues ==
  [][ IsChangeStep =>
        /\ queue \subseteq queue'
        /\ Cardinality(queue' \ queue) = 1
        /\ \A e \in queue' \ queue :
             LET t == e.task_id IN
             /\ t \in DOMAIN tasks
             /\ e.retry_count = 0 /\ e.id \notin QueueIds(queue)
             /\ tasks'[t].sync_status = "pending"
             /\ tasks'[t].updated_at = now
             /\ \A u \in DOMAIN tasks : u # t => tasks'[u] = tasks[u]
             /\ e.operation \in {"update", "delete"}
             /\ e.operation = "delete" =>
                  /\ tasks'[t].is_deleted = 1
                  /\ tasks'[t].title = tasks[t].title
             /\ e.operation = "update" =>
                  /\ tasks'[t].is_deleted = tasks[t].is_deleted
                  /\ tasks'[t].title = e.data.title
    ]_vars

\* a task that had been synced has just been updated: it is pending again
C17_Witness ==
  /\ pc = "idle"
  /\ \E e \in queue :
       /\ e.id = nOps /\ e.operation = "update" /\ e.retry_count = 0
       /\ tasks[e.task_id].sync_status = "pending"
       /\ tasks[e.task_id].last_synced_at # NullTime
       /\ tasks[e.task_id].updated_at = now

\* C18: an updateTask call that succeeds leaves the task with an updated_at
\* strictly greater than the one it had before the call.
C18_UpdatedAtGrows ==
  [][ IsChangeStep =>
        \A e \in queue' \ queue :
          e.operation = "update" =>
            tasks'[e.task_id].updated_at > tasks[e.task_id].updated_at
    ]_vars

\* C19: the authority holds at most one record per client id, and the success
\* verdicts it returns for one client id all carry the same server id
C19_OneRecordOneId ==
  /\ \A r1, r2 \in server : r1.client_id = r2.client_id => r1 = r2
  /\ \A i, j \in DOMAIN plog :
       (/\ plog[i].clientId = plog[j].clientId
        /\ plog[i].verdict.status = "success"
        /\ plog[j].verdict.status = "success")
       => plog[i].verdict.server_id = plog[j].verdict.server_id

\* a delete item that found no record of its client id and got a success verdict
IsDeleteOfUnknown(L) ==
  /\ L.op = "delete"
  /\ L.before = {}
  /\ L.verdict.status = "success"

\* C20: a delete item for a client id the authority holds no record of inserts
\* one record with is_deleted = 1 and updated_at = the delete's timestamp; a
\* create or update item that finds a deleted record of its client id with a
\* strictly newer updated_at leaves that record as it was and gets conflict = true.
C20_Tombstone ==
  \A i \in DOMAIN plog :
    LET L == plog[i] IN
    /\ IsDeleteOfUnknown(L) =>
         \E t \in L.after :
           /\ L.after = {t}
           /\ t.client_id = L.clientId
           /\ t.is_deleted = 1
           /\ t.updated_at = L.item.data.updated_at
    /\ IsWriteOnExisting(L) =>
         \A ex \in L.before :
           (ex.is_deleted = 1 /\ L.item.data.updated_at < ex.updated_at)
           => WriteRejected(L, ex) /\ \A r \in L.after : r.is_deleted = 1

\* one batch whose delete made the tombstone and whose older create, coming
\* after it, was flagged and left the tombstone in place
C20_Witness ==
  \E i, j \in DOMAIN plog :
    /\ i < j
    /\ IsDeleteOfUnknown(plog[i])
    /\ IsWriteOnExisting(plog[j])
    /\ plog[j].op = "create"
    /\ plog[j].before = plog[i].after
    /\ plog[j].item.data.updated_at < plog[i].item.data.updated_at
    /\ plog[j].after = plog[i].after
    /\ plog[j].verdict.conflict


\* C21: once the authority's record of a client id has is_deleted = 1, it has
\* is_deleted = 1 in every later state, whatever items processBatch is given
C21_NoResurrection ==
  [][\A r \in server : r.is_deleted = 1 =>
       \A r2 \in server' : r2.client_id = r.client_id => r2.is_deleted = 1]_vars


\* processBatch runs on the request of this step
IsProcessStep == req # <<>> /\ req' = <<>> /\ issued' = issued

\* C22: processBatch answers every item of the request with one verdict, in
\* item order, whatever storage operation fails on the way: the call itself
\* does not fail, and a verdict with status error has an empty resolved record
C22_ItemIsolation ==
  [][IsProcessStep =>
       /\ ~thrown'
       /\ Len(plog') = Len(req)
       /\ \A i \in DOMAIN plog' :
            /\ plog'[i].item = req[i]
            /\ plog'[i].verdict.status \in {"success", "error"}
            /\ plog'[i].verdict.status = "error" =>
                 plog'[i].verdict.resolved_data = <<>>]_vars


\* a watched TaskService call ends in this step (a call that repeats the last
\* one on an unchanged store is a stuttering step)
IsCallEnd(name) == ret' # ret /\ ret'.name = name

\* C23: updateTask and deleteTask on an id no task has return null, resp. false,
\* to the caller, and leave the tasks and the queue as they were
C23_NotFound ==
  [][/\ (IsCallEnd("updateTask") /\ ret'.id \notin DOMAIN tasks)
          => ret'.gives = "null" /\ tasks' = tasks /\ queue' = queue
     /\ (IsCallEnd("deleteTask") /\ ret'.id \notin DOMAIN tasks)
          => ret'.gives = "false" /\ tasks' = tasks /\ queue' = queue]_vars

\* deleteTask on an id no task has returned false, a task and a queue entry
\* being there
C23_Witness ==
  /\ ret.name = "deleteTask"
  /\ ret.id \notin DOMAIN tasks
  /\ ret.gives = "false"
  /\ tasks # <<>>
  /\ queue # {}


\* the title of the input is missing or blank
IsBlankTitle(input) == "title" \notin DOMAIN input \/ input.title \in {"", " ", "  "}

\* C24: createTask whose title is missing or blank, and updateTask of a task
\* with a blank title, throw their validation error and leave the tasks
\* (updated_at and sync_status included) and the queue as they were
C24_Validation ==
  [][/\ (IsCallEnd("createTask") /\ IsBlankTitle(ret'.input))
          => /\ ret'.gives = "Error: Title is required"
             /\ tasks' = tasks /\ queue' = queue
     /\ (/\ IsCallEnd("updateTask") /\ ret'.id \in DOMAIN tasks
         /\ "title" \in DOMAIN ret'.input /\ IsBlankTitle(ret'.input))
          => /\ ret'.gives = "Error: Title cannot be empty"
             /\ tasks' = tasks /\ queue' = queue]_vars

\* updateTask with a blank title threw on a task that is synced
C24_Witness ==
  /\ ret.name = "updateTask"
  /\ ret.id \in DOMAIN tasks
  /\ ret.gives = "Error: Title cannot be empty"
  /\ tasks[ret.id].sync_status = "synced"


\* entries i and j of batch its are of one task, the later one stamped later
IsLaterOfTask(its, i, j) ==
  /\ i < j
  /\ its[i].task_id = its[j].task_id
  /\ its[i].data.updated_at < its[j].data.updated_at

\* C25: when one sync() sends two entries of a task, stamped t1 < t2, to an
\* authority that has no record of the task, the authority ends with one
\* record of it, updated_at = t2 and title, description and completed of the
\* later entry, no verdict of the two is flagged as conflict, and when sync()
\* returns the task is synced with updated_at = t2.
C25_TwoEntriesOneSync ==
  [][/\ (pc = "idle" /\ pc' = "applying") =>
          \A i, j \in DOMAIN items' :
            (IsLaterOfTask(items', i, j) /\ ServerRows(server, items'[i].task_id) = {})
            => /\ \E r \in server' :
                    /\ ServerRows(server', items'[i].task_id) = {r}
                    /\ r.updated_at = items'[j].data.updated_at
                    /\ items'[j].operation # "delete" =>
                         /\ r.title = items'[j].data.title
                         /\ r.description = items'[j].data.description
                         /\ r.completed = toInt(items'[j].data.completed)
                         /\ r.is_deleted = 0
                    /\ items'[j].operation = "delete" => r.is_deleted = 1
               /\ \A k \in {i, j} : /\ processed'[k].status = "success"
                                    /\ processed'[k].conflict = FALSE
     /\ IsResponseReturn =>
          \A i, j \in DOMAIN items :
            IsLaterOfTask(items, i, j)
            => /\ tasks'[items[i].task_id].sync_status = "synced"
               /\ tasks'[items[i].task_id].updated_at = items[j].data.updated_at
               /\ result'.success /\ result'.errors = <<>>]_vars

\* sync() has returned from a batch with the create of a task and a later
\* update of it under another title; the authority's record has the update's
\* title and the task is synced
C25_Witness ==
  /\ pc = "returned"
  /\ Len(items) = 2
  /\ IsLaterOfTask(items, 1, 2)
  /\ items[1].operation = "create" /\ items[2].operation = "update"
  /\ items[1].data.title # items[2].data.title
  /\ \E r \in server :
       /\ r.client_id = items[1].task_id
       /\ r.title = items[2].data.title
       /\ r.updated_at = items[2].data.updated_at
  /\ tasks[items[1].task_id].sync_status = "synced"
  /\ tasks[items[1].task_id].updated_at = items[2].data.updated_at


\* the verdict sync() applies in this step is a success flagged as conflict
IsConflictApply ==
  /\ IsApplyStep
  /\ processed[vi + 1].status = "success"
  /\ processed[vi + 1].conflict

\* C26: sync() applies a success verdict flagged as conflict as a success: the
\* task is synced, the entry the verdict answers is out of the queue,
\* synced_items grows by one, failed_items does not, success stays true, and
\* the step adds exactly one note to the result, the conflict note of the task.
C26_ConflictIsSuccess ==
  [][IsConflictApply =>
       LET clientId == processed[vi + 1].client_id IN
       /\ tasks'[clientId].sync_status = "synced"
       /\ items[vi + 1].id \notin QueueIds(queue')
       /\ result'.synced_items = result.synced_items + 1
       /\ result'.failed_items = result.failed_items
       /\ result.success /\ result'.success
       /\ Len(result'.errors) = Len(result.errors) + 1
       /\ SubSeq(result'.errors, 1, Len(result.errors)) = result.errors
       /\ result'.errors[Len(result'.errors)].task_id = clientId
       /\ result'.errors[Len(result'.errors)].error =
            "Conflict resolved using last-write-wins"]_vars

\* sync() has returned a result that counts one synced item and holds its
\* conflict note
C26_Witness ==
  /\ pc = "returned"
  /\ result.success
  /\ result.failed_items = 0
  /\ \E i \in DOMAIN processed :
       /\ processed[i].status = "success" /\ processed[i].conflict
       /\ tasks[processed[i].client_id].sync_status = "synced"
       /\ \E k \in DOMAIN result.errors :
            /\ result.errors[k].task_id = processed[i].client_id
            /\ result.errors[k].error = "Conflict resolved using last-write-wins"


\* C27: once sync() has applied the response, every task that is synced and
\* has no entry left in the queue agrees with the authority's record of its
\* client id in title, description, completed and in being deleted
C27_LocalReflectsServer ==
  pc \in {"returned", "idle"} =>
    \A id \in DOMAIN tasks :
      (tasks[id].sync_status = "synced" /\ \A e \in queue : e.task_id # id)
      => \E r \in ServerRows(server, id) :
           /\ r.title = tasks[id].title
           /\ r.description = tasks[id].description
           /\ r.completed = tasks[id].completed
           /\ r.is_deleted = tasks[id].is_deleted


\* C28: getStatus() returns pending_sync_count = sync_queue_size = the number
\* of queue entries, whatever their retry_count, and last_sync_timestamp = the
\* greatest last_synced_at of the tasks, null when no task has one; it changes
\* neither the tasks, the queue nor the authority's table.
C28_Status ==
  [][IsCallEnd("getStatus") =>
       LET st == ret'.status IN
       /\ st.pending_sync_count = Cardinality(queue)
       /\ st.sync_queue_size = Cardinality(queue)
       /\ \A id \in DOMAIN tasks : tasks[id].last_synced_at <= st.last_sync_timestamp
       /\ \/ \E id \in DOMAIN tasks :
               /\ tasks[id].last_synced_at # NullTime
               /\ tasks[id].last_synced_at = st.last_sync_timestamp
          \/ /\ st.last_sync_timestamp = NullTime
             /\ \A id \in DOMAIN tasks : tasks[id].last_synced_at = NullTime
       /\ tasks' = tasks /\ queue' = queue /\ server' = server
       /\ pc' = pc /\ result' = result]_vars

\* getStatus() has counted a queue that holds an entry out of retries, one
\* task having been synced
C28_Witness ==
  /\ ret.name = "getStatus"
  /\ ret.status.pending_sync_count = Cardinality(queue)
  /\ \E e \in queue : e.retry_count >= maxRetries
  /\ ret.status.last_sync_timestamp # NullTime
  /\ ret.status.last_sync_timestamp = LastSync(tasks)


\* C29: a queue entry that updateTask or deleteTask inserted while a sync()
\* whose batch holds an entry of the same task was suspended is in the queue
\* when that sync() has returned (so the task is not synced without it)
C29_NoLostMutation ==
  pc = "returned" =>
    \A d \in during :
      (\E i \in DOMAIN items : items[i].task_id = d.task_id)
      => \E e \in queue : e.id = d.id /\ e.operation \in {"update", "delete"}


\* a delete item that found a record of its client id and got a success verdict
IsDeleteOfKnown(L) ==
  /\ L.op = "delete"
  /\ L.before # {}
  /\ L.verdict.status = "success"

AllSynced == \A id \in DOMAIN tasks : tasks[id].sync_status = "synced"

\* C31: with sync() called again and again, the batch calls delivered from some
\* point on and every item answered with success, a queue that is not empty
\* leads to an empty queue with every task synced; and a sync() whose batch
\* call was delivered removes at least one entry (its first verdict removes
\* one, no later verdict adds any).
C31_EventuallyReconciled ==
  /\ [][IsApplyStep =>
          /\ queue' \subseteq queue
          /\ vi = 0 => queue' # queue]_vars
  /\ (queue # {}) ~> (queue = {} /\ AllSynced)

\* a sync() has returned from its last verdict with the queue empty and the
\* tasks synced
C31_Witness ==
  /\ pc = "returned"
  /\ result.success /\ result.synced_items >= 1
  /\ tasks # <<>>
  /\ queue = {}
  /\ AllSynced


\* C32: the updated_at of the authority's record of a client id never
\* decreases, whatever items processBatch is given
C32_UpdatedAtMonotone ==
  [][\A r \in server : \A r2 \in server' :
       r2.client_id = r.client_id => r2.updated_at >= r.updated_at]_vars


\* the step is a step of sync()
IsSyncStep == pc' # pc \/ vi' # vi

\* the tasks that have an entry in the batch of the sync() in progress
BatchTasks(its) == {its[i].task_id : i \in DOMAIN its}

\* the fields of a task sync() has no statement for
Kept(row) ==
  [ title |-> row.title, description |-> row.description, completed |-> row.completed,
    is_deleted |-> row.is_deleted, created_at |-> row.created_at ]

\* C33: no step of sync(), in the success path or in the transport-failure
\* path, changes title, description, completed, is_deleted or created_at of a
\* task, and none changes any field of a task that has no entry in the batch
C33_SyncFrame ==
  [][IsSyncStep =>
       /\ DOMAIN tasks' = DOMAIN tasks
       /\ \A id \in DOMAIN tasks :
            /\ Kept(tasks'[id]) = Kept(tasks[id])
            /\ id \notin BatchTasks(items) \cup BatchTasks(items') => tasks'[id] = tasks[id]]_vars

\* sync() has returned: the task of its batch is synced, and a task outside
\* the batch is pending with its entry as before
C33_Witness ==
  /\ pc = "returned"
  /\ result.success
  /\ \E id \in BatchTasks(items) : tasks[id].sync_status = "synced"
  /\ \E id \in DOMAIN tasks \ BatchTasks(items) :
       /\ tasks[id].sync_status = "pending"
       /\ tasks[id].server_id = NullId
       /\ \E e \in queue : e.task_id = id


\* C34: with the TaskService calls and sync() taking turns, a task with
\* sync_status = error has a queue entry with retry_count >= maxRetries; a task
\* has a server_id exactly when it has a last_synced_at (both null until its
\* first success verdict), and neither becomes null again.
C34_ErrorAndServerId ==
  /\ [](\A id \in DOMAIN tasks :
          /\ tasks[id].sync_status = "error" =>
               \E e \in queue : e.task_id = id /\ e.retry_count >= maxRetries
          /\ tasks[id].server_id # NullId <=> tasks[id].last_synced_at # NullTime
          /\ tasks[id].server_id = NullId => tasks[id].sync_status # "synced")
  /\ [][\A id \in DOMAIN tasks :
          /\ tasks[id].server_id # NullId => tasks'[id].server_id # NullId
          /\ tasks[id].last_synced_at # NullTime =>
               tasks'[id].last_synced_at # NullTime]_vars

\* a task that was synced once is in error, its entry out of retries
C34_Witness ==
  \E id \in DOMAIN tasks :
    /\ tasks[id].sync_status = "error"
    /\ tasks[id].server_id # NullId
    /\ tasks[id].last_synced_at # NullTime
    /\ \E e \in queue : e.task_id = id /\ e.retry_count >= maxRetries


\* what a redelivery is held to leave alone in a record of the authority
Settled(r) ==
  [ id |-> r.id, client_id |-> r.client_id, title |-> r.title,
    description |-> r.description, completed |-> r.completed,
    is_deleted |-> r.is_deleted, updated_at |-> r.updated_at ]

\* the authority's table after processBatch has run once more on batch its
Redelivered(srv, its) ==
  ProcessBatch(srv, its, now, [i \in DOMAIN its |-> "none"]).srv

\* every item of the batch just processed got a success verdict
AllSucceeded(its, log) ==
  /\ Len(log) = Len(its)
  /\ \A i \in DOMAIN log : log[i].verdict.status = "success"

\* C35: when processBatch has answered every item of a batch with success,
\* processing the same batch once more leaves every record's title,
\* description, completed, is_deleted and updated_at, and the server id of
\* every client id, as the first processing left them
C35_RedeliveryIdempotent ==
  [][(IsProcessStep /\ ~thrown' /\ AllSucceeded(req, plog')) =>
       {Settled(r) : r \in Redelivered(server', req)} =
       {Settled(r) : r \in server'}]_vars


\* the item of a batch with the greatest updated_at
Newest(its) ==
  CHOOSE i \in DOMAIN its :
    \A j \in DOMAIN its : its[j].data.updated_at <= its[i].data.updated_at

\* create/update items of one client id with pairwise distinct updated_at
IsDistinctWrites(its) ==
  /\ its # <<>>
  /\ \A i \in DOMAIN its :
       /\ "operation" \in DOMAIN its[i] /\ "data" \in DOMAIN its[i]
       /\ its[i].operation \in {"create", "update"}
       /\ "updated_at" \in DOMAIN its[i].data
       /\ ClientIdOf(its[i]) = ClientIdOf(its[1])
  /\ \A i, j \in DOMAIN its :
       i # j => its[i].data.updated_at # its[j].data.updated_at

\* the batch with its items in the opposite order
Reversed(its) == [i \in DOMAIN its |-> its[Len(its) + 1 - i]]


\* title, description, completed and updated_at as a record stores them
Payload(r) ==
  [ title |-> r.title, description |-> r.description,
    completed |-> r.completed, updated_at |-> r.updated_at ]

\* the same fields as an item's payload would be stored
Stored(incoming) ==
  [ title |-> incoming.title, description |-> incoming.description,
    completed |-> toInt(incoming.completed), updated_at |-> incoming.updated_at ]

\* those four fields of every record of the authority's table, per client id
PayloadOf(srv) == {<<r.client_id, Payload(r)>> : r \in srv}

\* the record found for the batch is not newer than the batch's newest item
NotNewerThan(srv, its) ==
  \A r \in ServerRows(srv, ClientIdOf(its[1])) :
    r.updated_at <= its[Newest(its)].data.updated_at

\* C36: when processBatch has answered a batch of create/update items of one
\* client id with pairwise distinct updated_at, the record's title,
\* description, completed and updated_at are what the same items in the
\* opposite order would have left; they are those of the item with the
\* greatest updated_at, unless the record was newer than every item already,
\* and then they are untouched
C36_OrderIndependent ==
  [][(IsProcessStep /\ ~thrown' /\ AllSucceeded(req, plog') /\ IsDistinctWrites(req)) =>
       /\ PayloadOf(server') = PayloadOf(Redelivered(server, Reversed(req)))
       /\ IF NotNewerThan(server, req)
          THEN PayloadOf(server') =
                 {<<ClientIdOf(req[1]), Stored(Incoming(req[Newest(req)], now))>>}
          ELSE PayloadOf(server') = PayloadOf(server)]_vars

\* a two-item batch whose older item came last has been processed, and the
\* record is the first item's
C36_Witness ==
  /\ Len(plog) = 2
  /\ \A i \in DOMAIN plog : plog[i].verdict.status = "success"
  /\ IsDistinctWrites(<<plog[1].item, plog[2].item>>)
  /\ plog[1].item.data.updated_at > plog[2].item.data.updated_at
  /\ plog[1].item.data.title # plog[2].item.data.title
  /\ plog[2].before = plog[2].after
  /\ \E r \in server : r.title = plog[1].item.data.title
                        /\ r.updated_at = plog[1].item.data.updated_at

====
